---- MODULE Spec2Model ----
(***************************************************************************)
(* Recipe/Package model and build pipeline of toltec                       *)
(* (scripts/toltec/recipe.py, version.py, ipk.py, util.py, bash.py).       *)
(*                                                                         *)
(* Python strings are TLA+ strings.  A Python exception is a record        *)
(* [kind, msg, about]: kind is the exception class, msg the message as the *)
(* sequence of its text fragments (an interpolated {x} of an f-string is   *)
(* the fragment holding the value of x; a literal is kept as written) and  *)
(* about the object the raising statement is concerned with.               *)
(***************************************************************************)
EXTENDS Integers, Sequences, FiniteSets, TLC

\* Python's None in an Optional[str] position.
None == "<None>"

NoErr == [kind |-> "", msg |-> <<>>, about |-> ""]
Raise(kind, msg, about) == [kind |-> kind, msg |-> msg, about |-> about]
Ok(v) == [err |-> NoErr, val |-> v]
Fail(e) == [err |-> e, val |-> None]
IsOk(r) == r.err = NoErr

Range(s) == {s[i] : i \in 1..Len(s)}

(***************************************************************************)
(* bash.py: the values of the declaration bridge                           *)
(***************************************************************************)
\* bash.Any / Optional[Any]: str, IndexedArray (list), AssociativeArray
\* (dict), or None for a variable declared without a value.
StrV(s) == [t |-> "str", s |-> s]
ListV(l) == [t |-> "list", l |-> l]
DictV == [t |-> "dict"]
NoneV == [t |-> "NoneType"]

\* type(value).__name__
TypeName(value) == value.t

\* {**base, **own}: own takes precedence on a name collision.
\* {**own, **base}: the merge of recipe.py:337-338 with the layers swapped.
DictMergeBaseFirst(base, own) == base @@ own

DictMerge(base, own) == own @@ base

\* dict.get(key, default)
DictGet(d, key, default) == IF key \in DOMAIN d THEN d[key] ELSE default

DictDel(d, key) == [k \in DOMAIN d \ {key} |-> d[k]]

Empty == [k \in {} |-> None]

(***************************************************************************)
(* recipe.py: field checks                                                 *)
(***************************************************************************)
\* An Optional default argument is <<>> (None) or <<value>>.
Required == <<>>
Default(x) == <<x>>

\* _check_field_string without the raise for a missing required field.
check_field_string_lenient(variables, name, default) ==
    IF name \notin DOMAIN variables
    THEN Ok(IF default = Required THEN "" ELSE default[1])
    ELSE LET value == variables[name] IN
         IF TypeName(value) # "str"
         THEN Fail(Raise("InvalidRecipeError",
                         <<"Field ", name, " must be a ", "string", ", got ",
                           TypeName(value)>>, name))
         ELSE Ok(value.s)

\* _check_field_string(variables, name, default)
check_field_string(variables, name, default) ==
    IF name \notin DOMAIN variables
    THEN IF default = Required
         THEN Fail(Raise("InvalidRecipeError",
                         <<"Missing required field ", name>>, name))
         ELSE Ok(default[1])
    ELSE LET value == variables[name] IN
         IF TypeName(value) # "str"
         THEN Fail(Raise("InvalidRecipeError",
                         <<"Field ", name, " must be a ", "string", ", got ",
                           TypeName(value)>>, name))
         ELSE Ok(value.s)

\* _check_field_indexed(variables, name, default)
check_field_indexed(variables, name, default) ==
    IF name \notin DOMAIN variables
    THEN IF default = Required
         THEN Fail(Raise("InvalidRecipeError",
                         <<"Missing required field '", name, "'">>, name))
         ELSE Ok(default[1])
    ELSE LET value == variables[name] IN
         IF TypeName(value) # "list"
         THEN Fail(Raise("InvalidRecipeError",
                         <<"Field '", name, "' must be an ", "indexed array",
                           ", got ", TypeName(value)>>, name))
         ELSE Ok(value.l)

(***************************************************************************)
(* version.py                                                              *)
(***************************************************************************)
Digits == {"0", "1", "2", "3", "4", "5", "6", "7", "8", "9"}
Letters == {"a", "b", "c", "x", "y", "z", "A", "B", "X", "Z", "r", "v"}

\* _VERSION_CHARS: the class [A-Za-z0-9.+~-] (letters: those of the inputs).
VersionChars == Digits \cup Letters \cup {".", "+", "~", "-"}

CharAt(s, i) == SubSeq(s, i, i)

\* _VERSION_CHARS.fullmatch(s) is not None
VersionCharsMatch(s) == Len(s) > 0 /\ \A i \in 1..Len(s) : CharAt(s, i) \in VersionChars

\* str.find(c): 0-based index of the first occurrence, -1 when there is none.
Find(s, c) ==
    LET hits == {i \in 1..Len(s) : CharAt(s, i) = c} IN
    IF hits = {} THEN -1
    ELSE (CHOOSE i \in hits : \A j \in hits : i <= j) - 1

\* s[:n] and s[n:] for 0 <= n <= len(s)
Take(s, n) == SubSeq(s, 1, n)
Drop(s, n) == SubSeq(s, n + 1, Len(s))

DigitVal(c) ==
    CASE c = "0" -> 0 [] c = "1" -> 1 [] c = "2" -> 2 [] c = "3" -> 3
      [] c = "4" -> 4 [] c = "5" -> 5 [] c = "6" -> 6 [] c = "7" -> 7
      [] c = "8" -> 8 [] c = "9" -> 9

IsDecimal(s) == Len(s) > 0 /\ \A i \in 1..Len(s) : CharAt(s, i) \in Digits

RECURSIVE DecimalVal(_)
DecimalVal(s) ==
    IF Len(s) = 0 THEN 0
    ELSE 10 * DecimalVal(Take(s, Len(s) - 1)) + DigitVal(CharAt(s, Len(s)))

\* Version.__init__(upstream, revision, epoch)
VersionInit(upstream, revision, epoch) ==
    IF ~VersionCharsMatch(upstream)
    THEN Fail(Raise("InvalidVersionError",
                    <<"Invalid chars in upstream version">>, "upstream"))
    ELSE IF ~VersionCharsMatch(revision)
    THEN Fail(Raise("InvalidVersionError",
                    <<"Invalid chars in revision">>, "revision"))
    ELSE Ok([upstream |-> upstream, revision |-> revision, epoch |-> epoch,
             original |-> None])

\* Version.parse(version)
VersionParse(version) ==
    LET colon == Find(version, ":")
        badEpoch == colon # -1 /\ ~IsDecimal(Take(version, colon))
        epoch == IF colon = -1 THEN 0 ELSE DecimalVal(Take(version, colon))
        v1 == IF colon = -1 THEN version ELSE Drop(version, colon + 1)
        dash == Find(v1, "-")
        revision == IF dash = -1 THEN "0" ELSE Drop(v1, dash + 1)
        v2 == IF dash = -1 THEN v1 ELSE Take(v1, dash)
        upstream == v2
        result == VersionInit(upstream, revision, epoch)
    IN  IF badEpoch
        THEN Fail(Raise("ValueError",
                        <<"invalid literal for int() with base 10: ",
                          Take(version, colon)>>, "epoch"))
        ELSE IF ~IsOk(result) THEN result
        \* line 56: `version` has by now been cut down to the upstream part
        ELSE Ok([result.val EXCEPT !.original = v2])

\* Version.__str__
VersionStr(v) ==
    IF v.original # None THEN v.original
    ELSE LET epoch == IF v.epoch = 0 THEN "" ELSE ToString(v.epoch) \o ":"
             revision == IF v.revision = "0" /\ Find(v.upstream, "-") = -1
                         THEN "" ELSE "-" \o v.revision
         IN  epoch \o v.upstream \o revision

(***************************************************************************)
(* recipe.py: Package                                                      *)
(***************************************************************************)
\* The first failure of a sequence of results, in order (the statement that
\* raises first ends the constructor); NoErr when none fails.
FirstErr(results) ==
    LET bad == {i \in 1..Len(results) : ~IsOk(results[i])} IN
    IF bad = {} THEN NoErr
    ELSE results[CHOOSE i \in bad : \A j \in bad : i <= j].err

InstallHooks == {"preinstall", "configure", "preremove", "preupgrade",
                 "postremove", "postupgrade"}

\* Message of the raise at recipe.py:358-359 (a plain string literal).
MissingPackageFunctionMsg(name) ==
    <<"Missing required function ", "package", "() for package ", "{self.name}">>

\* Package.__init__(name, parent, source); decl is the declaration bridge
\* (bash.get_declarations) as a function of the script text.
PackageInit(name, parent, source, decl) ==
    LET variables == DictMerge(parent.bash_variables, decl[source].vars)
        functions == DictMerge(parent.bash_functions, decl[source].funcs)
        pkgver_str == check_field_string(variables, "pkgver", Required)
        pkgver == IF IsOk(pkgver_str) THEN VersionParse(pkgver_str.val)
                  ELSE pkgver_str
        arch == check_field_string(variables, "arch", Default("armv7-3.2"))
        pkgdesc == check_field_string(variables, "pkgdesc", Required)
        url == check_field_string(variables, "url", Required)
        section == check_field_string(variables, "section", Required)
        license == check_field_string(variables, "license", Required)
        depends == check_field_indexed(variables, "depends", Default(<<>>))
        conflicts == check_field_indexed(variables, "conflicts", Default(<<>>))
        action == IF "package" \in DOMAIN functions THEN Ok(functions["package"])
                  ELSE Fail(Raise("InvalidRecipeError",
                                  MissingPackageFunctionMsg(name), name))
        err == FirstErr(<<pkgver_str, pkgver, arch, pkgdesc, url, section,
                          license, depends, conflicts, action>>)
    IN  IF err # NoErr THEN Fail(err)
        ELSE Ok([name |-> name,
                 parent |-> parent.name,
                 bash_variables |-> variables,
                 bash_functions |-> functions,
                 pkgver |-> pkgver.val,
                 arch |-> arch.val,
                 pkgdesc |-> pkgdesc.val,
                 url |-> url.val,
                 section |-> section.val,
                 license |-> license.val,
                 depends |-> depends.val,
                 conflicts |-> conflicts.val,
                 action |-> action.val,
                 install |-> [h \in InstallHooks |-> DictGet(functions, h, "")]])

\* Package.pkgid
pkgid(package) ==
    package.name \o "_" \o VersionStr(package.pkgver) \o "_" \o package.arch

\* Package.filename
filename(package) == pkgid(package) \o ".ipk"

(***************************************************************************)
(* recipe.py: Recipe                                                       *)
(***************************************************************************)
\* dateutil.parser.isoparse, on the timestamps of the inputs: the seconds
\* since the Unix epoch of a well-formed ISO-8601 date, ValueError otherwise.
IsoParse(timestamp_str) ==
    CASE timestamp_str = "2021-01-01T00:00:00Z" -> Ok(1609459200)
      [] timestamp_str = "2021-06-01T12:00:00+00:00" -> Ok(1622548800)
      [] OTHER -> Fail(Raise("InvalidRecipeError",
                             <<"Field '", "timestamp",
                               "' does not contain a valid ISO-8601 date">>,
                             "timestamp"))

\* Message of the raise at recipe.py:129-130 (a plain string literal).
MissingSplitFunctionMsg(pkg_name) ==
    <<"Missing required function ", "{pkg_name}", "() for corresponding package">>

\* The keys of a dict filled in the order of `names`: first occurrences.
RECURSIVE Dedup(_)
Dedup(names) ==
    IF names = <<>> THEN <<>>
    ELSE LET front == Dedup(SubSeq(names, 1, Len(names) - 1))
             last == names[Len(names)]
         IN  IF last \in Range(front) THEN front ELSE Append(front, last)

\* recipe.py:120-133, the packages of a recipe: a result holding the
\* mapping name -> Package, or the first failure.
RecipePackages(name, self, source, functions, decl) ==
    IF Len(self.pkgnames) = 1
    THEN LET Single(pkg) ==
                 IF IsOk(pkg) THEN Ok(self.pkgnames[1] :> pkg.val) ELSE pkg
         IN  Single(PackageInit(name, self, source, decl))
    ELSE LET one(pkg_name) ==
                 IF pkg_name \notin DOMAIN functions
                 THEN Fail(Raise("InvalidRecipeError",
                                 MissingSplitFunctionMsg(pkg_name), pkg_name))
                 ELSE PackageInit(pkg_name, self, functions[pkg_name], decl)
             \* results[k] is the outcome of the k-th turn of the loop; a
             \* name listed twice is assigned twice, the later value staying.
             Split(results) ==
                 IF FirstErr(results) # NoErr THEN Fail(FirstErr(results))
                 ELSE Ok([pkg_name \in Range(self.pkgnames) |->
                            results[CHOOSE k \in 1..Len(self.pkgnames) :
                                       /\ self.pkgnames[k] = pkg_name
                                       /\ \A m \in 1..Len(self.pkgnames) :
                                              self.pkgnames[m] = pkg_name => m <= k].val])
         IN  Split([k \in 1..Len(self.pkgnames) |-> one(self.pkgnames[k])])

\* recipe.py:109, image declared without build()
image_without_build(image, functions) ==
    image # "" /\ "build" \notin DOMAIN functions

\* recipe.py:113 with the check left out.
build_without_image_unchecked(image, functions) == FALSE

\* recipe.py:113, build() declared without image
build_without_image(image, functions) ==
    image = "" /\ "build" \in DOMAIN functions

\* Recipe.__init__(name, root, source)
RecipeInit(name, source, decl) ==
    LET variables == decl[source].vars
        functions == decl[source].funcs
        pkgnames == check_field_indexed(variables, "pkgnames", Required)
        timestamp_str == check_field_string(variables, "timestamp", Required)
        timestamp == IF IsOk(timestamp_str) THEN IsoParse(timestamp_str.val)
                     ELSE timestamp_str
        maintainer == check_field_string(variables, "maintainer", Required)
        image == check_field_string(variables, "image", Default(""))
        sources == check_field_indexed(variables, "source", Default(<<>>))
        noextract == check_field_indexed(variables, "noextract", Default(<<>>))
        sha256sums == check_field_indexed(variables, "sha256sums", Default(<<>>))
        counts == IF IsOk(sources) /\ IsOk(sha256sums)
                     /\ Len(sources.val) # Len(sha256sums.val)
                  THEN Fail(Raise("InvalidRecipeError",
                         <<"Expected the same number of sources and checksums, got ",
                           ToString(Len(sources.val)), " ", "source", "(s) and ",
                           ToString(Len(sha256sums.val)), " checksum(s)">>,
                         "source"))
                  ELSE Ok(None)
        image_build == IF IsOk(image) /\ image_without_build(image.val, functions)
                       THEN Fail(Raise("InvalidRecipeError",
                              <<"Missing ", "build", "() function for a recipe ",
                                "which declares a build image">>, "build"))
                       ELSE Ok(None)
        build_image == IF IsOk(image) /\ build_without_image(image.val, functions)
                       THEN Fail(Raise("InvalidRecipeError",
                              <<"Missing ", "image", " declaration for a recipe ",
                                "which has a build() step">>, "image"))
                       ELSE Ok(None)
        head == FirstErr(<<pkgnames, timestamp_str, timestamp, maintainer, image,
                           sources, noextract, sha256sums, counts, image_build,
                           build_image>>)
        self == [name |-> name,
                 bash_variables |-> variables,
                 bash_functions |-> functions,
                 pkgnames |-> pkgnames.val,
                 timestamp |-> timestamp.val,
                 maintainer |-> maintainer.val,
                 image |-> image.val,
                 source |-> sources.val,
                 noextract |-> noextract.val,
                 sha256sums |-> sha256sums.val,
                 actions |-> [prepare |-> DictGet(functions, "prepare", ""),
                              build |-> DictGet(functions, "build", "")]]
        \* self.packages is filled last (recipe.py:120-133); order is the
        \* iteration order of that dict.
        WithPackages(packages) ==
            IF ~IsOk(packages) THEN packages
            ELSE Ok([packages |-> packages.val,
                     order |-> Dedup(pkgnames.val)] @@ self)
    IN  IF head # NoErr THEN Fail(head)
        ELSE WithPackages(RecipePackages(name, self, source, functions, decl))

(***************************************************************************)
(* util.py / recipe.py: fetching                                           *)
(***************************************************************************)
LowerCase == {"a", "b", "c", "d", "e", "f", "g", "h", "i", "j", "k", "l", "m",
              "n", "o", "p", "q", "r", "s", "t", "u", "v", "w", "x", "y", "z"}

\* _URL_REGEX.match(source) is not None, for the pattern [a-z]+://
IsUrl(source) ==
    LET colon == Find(source, ":") IN
    /\ colon >= 1
    /\ \A k \in 1..colon : CharAt(source, k) \in LowerCase
    /\ SubSeq(source, colon + 1, colon + 3) = "://"

\* os.path.basename
Basename(path) ==
    LET slashes == {k \in 1..Len(path) : CharAt(path, k) = "/"} IN
    IF slashes = {} THEN path
    ELSE Drop(path, CHOOSE k \in slashes : \A m \in slashes : m <= k)

\* x or ''
OrEmpty(x) == IF x = None THEN "" ELSE x

\* recipe.py:215 without the SKIP sentinel.
ChecksumFailsNoSkip(checksum, digest) == digest # checksum

\* recipe.py:215 with the comparison left out: no file is ever refused.
ChecksumUnverified(checksum, digest) == FALSE

\* recipe.py:215, the condition under which the checksum step raises;
\* digest is util.file_sha256(local_path).
ChecksumFails(checksum, digest) == checksum # "SKIP" /\ digest # checksum

\* util.auto_extract: true iff the archive type is supported.
auto_extract(archive_path) ==
    Len(archive_path) >= 4 /\ Drop(archive_path, Len(archive_path) - 4) = ".zip"

(***************************************************************************)
(* util.py: remove_prefix                                                  *)
(***************************************************************************)
\* str.rstrip('/')
RECURSIVE RStripSlash(_)
RStripSlash(s) ==
    IF Len(s) > 0 /\ CharAt(s, Len(s)) = "/" THEN RStripSlash(Take(s, Len(s) - 1))
    ELSE s

\* os.path.split(p): <<head, tail>>, the tail being what follows the last
\* slash and the head what precedes it, without its trailing slashes unless
\* it is made of slashes only.
OsPathSplit(p) ==
    LET slashes == {k \in 1..Len(p) : CharAt(p, k) = "/"}
        cut == IF slashes = {} THEN 0
               ELSE CHOOSE k \in slashes : \A m \in slashes : m <= k
        head == Take(p, cut)
    IN  <<IF \E k \in 1..Len(head) : CharAt(head, k) # "/"
          THEN RStripSlash(head) ELSE head,
          Drop(p, cut)>>

\* split_all(path)
RECURSIVE split_all(_)
split_all(path) ==
    IF path \in {"", "/"} THEN <<>>
    ELSE IF OsPathSplit(path)[2] # ""
    THEN Append(split_all(OsPathSplit(path)[1]), OsPathSplit(path)[2])
    ELSE split_all(OsPathSplit(path)[1])

\* all_equal(seq): itertools.groupby yields exactly one group, or none.
all_equal(seq) == \A k \in 1..Len(seq) : seq[k] = seq[1]

\* The loop of util.py:61-63, from the value `prefix`.
RECURSIVE SharedPrefix(_, _, _)
SharedPrefix(split_filenames, min_len, prefix) ==
    IF prefix < min_len
       /\ all_equal([k \in 1..Len(split_filenames) |-> split_filenames[k][prefix + 1]])
    THEN SharedPrefix(split_filenames, min_len, prefix + 1)
    ELSE prefix

\* util.py:66-67 left out.
KeepAllOfSingleFile(filenames, prefix) == prefix

\* util.py:66-67: of a single file the last component is kept.
KeepLastOfSingleFile(filenames, prefix) ==
    IF Len(filenames) = 1 THEN prefix - 1 ELSE prefix

\* os.path.join(*parts), parts not empty and without slashes
RECURSIVE JoinPath(_)
JoinPath(parts) ==
    IF Len(parts) = 1 THEN parts[1]
    ELSE JoinPath(SubSeq(parts, 1, Len(parts) - 1)) \o "/" \o parts[Len(parts)]

\* remove_prefix(filenames), filenames not empty
remove_prefix(filenames) ==
    LET split_filenames == [k \in 1..Len(filenames) |-> split_all(filenames[k])]
        min_len == CHOOSE n \in {Len(split_filenames[k]) : k \in 1..Len(filenames)} :
                       \A k \in 1..Len(filenames) : n <= Len(split_filenames[k])
        prefix == KeepLastOfSingleFile(filenames,
                      SharedPrefix(split_filenames, min_len, 0))
        kept == {k \in 1..Len(filenames) : Len(split_filenames[k]) > prefix}
    IN  [member \in {filenames[k] : k \in kept} |->
            LET split_filename ==
                    split_filenames[CHOOSE k \in kept : filenames[k] = member]
            IN  JoinPath(SubSeq(split_filename, prefix + 1, Len(split_filename)))]

(***************************************************************************)
(* ipk.py                                                                  *)
(***************************************************************************)
\* str.removeprefix
RemovePrefix(str, prefix) ==
    IF Len(str) >= Len(prefix) /\ Take(str, Len(prefix)) = prefix
    THEN Drop(str, Len(prefix)) ELSE str

\* _clean_info(root, epoch, info)
clean_info(root, epoch, info) ==
    [info EXCEPT !.name = "." \o RemovePrefix(info.name, root),
                 !.uid = 0, !.gid = 0, !.uname = "", !.gname = "",
                 !.mtime = epoch]

\* _targz_open(fileobj, epoch): the variable fields of the gzip header of
\* the archive opened.
targz_open(epoch) == [filename |-> "", mtime |-> epoch]

\* tarfile.TarInfo(name): the fields the archives carry, with the defaults
\* of a fresh TarInfo.
TarInfo(name) ==
    [name |-> name, mode |-> 420, uid |-> 0, gid |-> 0, uname |-> "",
     gname |-> "", mtime |-> 0, data |-> [bytes |-> ""]]

\* _add_file(archive, name, mode, epoch, data): the entry appended.
add_file(name, mode, epoch, data) ==
    clean_info(".", epoch,
               [TarInfo("./" \o name) EXCEPT !.mode = mode, !.data = data])

\* make_control(file, epoch, metadata, scripts): the entries of the
\* sub-archive; scripts is the dict as the sequence of its items.
make_control(epoch, metadata, scripts) ==
    [gzip |-> targz_open(epoch),
     tar |-> <<add_file("control", 420, epoch, [text |-> metadata])>>
             \o [k \in 1..Len(scripts) |->
                    add_file(scripts[k].name, 493, epoch,
                             [script |-> scripts[k].script])]]

\* str.lstrip('/')
RECURSIVE LStripSlash(_)
LStripSlash(s) ==
    IF Len(s) > 0 /\ CharAt(s, 1) = "/" THEN LStripSlash(Drop(s, 1)) ELSE s

\* os.path.join(a, b) for a relative, non-empty b
PathJoin(a, b) ==
    IF a = "" \/ CharAt(a, Len(a)) = "/" THEN a \o b ELSE a \o "/" \o b

\* archive.add(pkg_dir) of ipk.py:100, before the filter is applied: the
\* members TarFile.add yields for the directory pkg_dir.  files is the
\* content of the directory in the order of the walk, the directory itself
\* (path "") first; stat is what os.lstat reports for the files.  The
\* member name is the path handed to add with every leading '/' taken off
\* (TarFile.gettarinfo).
TarAdd(pkg_dir, files, stat) ==
    [k \in 1..Len(files) |->
        [TarInfo(LStripSlash(IF files[k].path = "" THEN pkg_dir
                             ELSE PathJoin(pkg_dir, files[k].path)))
            EXCEPT !.mode = files[k].mode, !.data = files[k].data,
                   !.uid = stat.uid, !.gid = stat.gid,
                   !.uname = stat.uname, !.gname = stat.gname,
                   !.mtime = stat.mtime]]

\* make_data(file, epoch, pkg_dir): tree is what the walk of pkg_dir by
\* TarFile.add yields, each entry with the metadata found on disk.
make_data(epoch, pkg_dir, tree) ==
    [gzip |-> targz_open(epoch),
     tar |-> [k \in 1..Len(tree) |-> clean_info(pkg_dir, epoch, tree[k])]]

\* make_ipk writing the data sub-archive before the control sub-archive.
make_ipk_data_first(epoch, pkg_dir, tree, metadata, scripts) ==
    [gzip |-> targz_open(epoch),
     entries |->
        <<add_file("data.tar.gz", 420, epoch, make_data(epoch, pkg_dir, tree)),
          add_file("control.tar.gz", 420, epoch,
                   make_control(epoch, metadata, scripts)),
          add_file("debian-binary", 420, epoch, [bytes |-> "2.0\n"])>>]

\* make_ipk: the gzip header of the outer archive and its entries, in the
\* order written.
make_ipk(epoch, pkg_dir, tree, metadata, scripts) ==
    [gzip |-> targz_open(epoch),
     entries |->
        <<add_file("control.tar.gz", 420, epoch,
                   make_control(epoch, metadata, scripts)),
          add_file("data.tar.gz", 420, epoch, make_data(epoch, pkg_dir, tree)),
          add_file("debian-binary", 420, epoch, [bytes |-> "2.0\n"])>>]

(***************************************************************************)
(* recipe.py: Package.control_fields and Package.archive                   *)
(***************************************************************************)
\* ', '.join(item for item in items if item)
RECURSIVE JoinTruthy(_)
JoinTruthy(items) ==
    IF items = <<>> THEN ""
    ELSE LET front == JoinTruthy(SubSeq(items, 1, Len(items) - 1))
             last == OrEmpty(items[Len(items)])
         IN  IF last = "" THEN front
             ELSE IF \A k \in 1..(Len(items) - 1) : OrEmpty(items[k]) = ""
                  THEN last
                  ELSE front \o ", " \o last

\* Package.control_fields: the stanza as its lines <<field, value>>.
control_fields(package, maintainer) ==
    <<<<"Package", package.name>>,
      <<"Version", VersionStr(package.pkgver)>>,
      <<"Maintainer", maintainer>>,
      <<"Section", package.section>>,
      <<"Architecture", package.arch>>,
      <<"Description", package.pkgdesc>>,
      <<"HomePage", package.url>>,
      <<"License", package.license>>>>
    \o (IF package.depends # <<>>
        THEN <<<<"Depends", JoinTruthy(package.depends)>>>> ELSE <<>>)
    \o (IF package.conflicts # <<>>
        THEN <<<<"Conflicts", JoinTruthy(package.conflicts)>>>> ELSE <<>>)

\* One guarded block of a maintainer script: if [[ $1 = action ]] ... fi
Guard(action, body) == [action |-> action, body |-> body]

\* recipe.py:444-481 with the test of recipe.py:465 reading only the
\* upgrade hook.
install_scripts_upgrade_only(package) ==
    LET first(name, script, action) ==
            IF package.install[name] # ""
            THEN <<[name |-> script,
                    script |-> <<Guard(action, package.install[name])>>]>>
            ELSE <<>>
        block(step, action) ==
            IF package.install[step \o action] # ""
            THEN <<Guard(action, package.install[step \o action])>>
            ELSE <<>>
        second(step) ==
            IF package.install[step \o "upgrade"] # ""
            THEN <<[name |-> step \o "rm",
                    script |-> block(step, "upgrade") \o block(step, "remove")]>>
            ELSE <<>>
    IN  first("preinstall", "preinst", "install")
        \o first("configure", "postinst", "configure")
        \o second("pre") \o second("post")

\* recipe.py:444-481, the maintainer scripts of a package, as the items of
\* the dict in insertion order: the header is the same for all of them and
\* each script is the sequence of its guarded blocks.
install_scripts(package) ==
    LET first(name, script, action) ==
            IF package.install[name] # ""
            THEN <<[name |-> script,
                    script |-> <<Guard(action, package.install[name])>>]>>
            ELSE <<>>
        block(step, action) ==
            IF package.install[step \o action] # ""
            THEN <<Guard(action, package.install[step \o action])>>
            ELSE <<>>
        second(step) ==
            IF package.install[step \o "upgrade"] # ""
               \/ package.install[step \o "remove"] # ""
            THEN <<[name |-> step \o "rm",
                    script |-> block(step, "upgrade") \o block(step, "remove")]>>
            ELSE <<>>
    IN  first("preinstall", "preinst", "install")
        \o first("configure", "postinst", "configure")
        \o second("pre") \o second("post")

(***************************************************************************)
(* bash.py: put_variables and get_declarations                             *)
(***************************************************************************)
\* An associative array with its content.
AssocV(d) == [t |-> "dict", d |-> d]

\* str.replace(old, new), old not empty
RECURSIVE Replace(_, _, _)
Replace(s, old, new) ==
    IF Len(s) < Len(old) THEN s
    ELSE IF Take(s, Len(old)) = old
    THEN new \o Replace(Drop(s, Len(old)), old, new)
    ELSE Take(s, 1) \o Replace(Drop(s, 1), old, new)

\* _parse_string(token)
parse_string(token) == Replace(token, "\\$", "$")

\* The word characters of the lexer of get_declarations (bash.py:56-57):
\* those of shlex and '-'.
WordChars == LowerCase \cup Letters \cup Digits \cup {"_", "-"}

\* The characters shlex.quote leaves unquoted: [\w@%+=:,./-]
SafeChars == WordChars \cup {"@", "%", "+", "=", ":", ",", ".", "/"}

\* _generate_string(string), that is shlex.quote(string)
generate_string(string) ==
    IF string = "" THEN "''"
    ELSE IF \A k \in 1..Len(string) : CharAt(string, k) \in SafeChars THEN string
    ELSE "'" \o Replace(string, "'", "'\"'\"'") \o "'"

\* _generate_indexed(array): the items [index]=value between the
\* parentheses, in order.
RECURSIVE generate_indexed(_)
generate_indexed(array) ==
    IF array = <<>> THEN <<>>
    ELSE LET front == generate_indexed(SubSeq(array, 1, Len(array) - 1)) IN
         IF array[Len(array)] = None THEN front
         ELSE Append(front, [index |-> ToString(Len(array) - 1),
                             value |-> generate_string(array[Len(array)])])

\* _generate_assoc(array): the items [key]=value between the parentheses.
generate_assoc(array) ==
    {[key |-> generate_string(k), value |-> generate_string(array[k])] :
        k \in DOMAIN array}

\* One declare statement: its flags, the name and, when there is an '=',
\* what follows it (a word, or the items of an array).
Declare(flags, name) == [flags |-> flags, name |-> name, assigned |-> FALSE]
DeclareAs(flags, name, value) ==
    [flags |-> flags, name |-> name, assigned |-> TRUE, value |-> value]

\* put_variables(variables): the statements of the fragment, one a
\* variable.
put_variables(variables) ==
    [n \in DOMAIN variables |->
        LET value == variables[n] IN
        CASE TypeName(value) = "NoneType" -> Declare("--", n)
          [] TypeName(value) = "str" ->
                DeclareAs("--", n, generate_string(value.s))
          [] TypeName(value) = "list" ->
                DeclareAs("-a", n, generate_indexed(value.l))
          [] TypeName(value) = "dict" ->
                DeclareAs("-A", n, generate_assoc(value.d))]

\* bash: the value of a word made of unquoted characters and of parts
\* between single or double quotes; quote is the quote the reading is
\* inside of, "" outside.  (The words shlex.quote writes hold nothing that
\* bash expands.)
RECURSIVE BashWord(_, _)
BashWord(w, quote) ==
    IF w = "" THEN ""
    ELSE IF quote = ""
    THEN IF Take(w, 1) \in {"'", "\""} THEN BashWord(Drop(w, 1), Take(w, 1))
         ELSE Take(w, 1) \o BashWord(Drop(w, 1), "")
    ELSE IF Take(w, 1) = quote THEN BashWord(Drop(w, 1), "")
    ELSE Take(w, 1) \o BashWord(Drop(w, 1), quote)

\* bash, declare -p: a value is printed between double quotes, with a
\* backslash before each ", \ and $ (and before each backquote, a character
\* the inputs leave out).
RECURSIVE BashEscape(_)
BashEscape(s) ==
    IF s = "" THEN ""
    ELSE (IF Take(s, 1) \in {"\"", "\\", "$"} THEN "\\" \o Take(s, 1)
          ELSE Take(s, 1)) \o BashEscape(Drop(s, 1))

BashQuote(s) == "\"" \o BashEscape(s) \o "\""

\* bash, declare -p: the key of an associative array is printed as it is
\* when made of letters, digits, _ and -, between double quotes otherwise.
BashKey(key) ==
    IF \A k \in 1..Len(key) : CharAt(key, k) \in WordChars THEN key
    ELSE BashQuote(key)

\* default_variables (bash.py:19-29), the ones the models of the shell set.
default_variables == {"PATH", "IFS", "PWD"}

\* The variables bash defines by itself when started with an empty
\* environment, as declare -p prints them.
ShellDeclarations ==
    ("PATH" :> DeclareAs("--", "PATH", BashQuote("/usr/bin:/bin")))
    @@ ("PWD" :> DeclareAs("-x", "PWD", BashQuote("/")))

\* bash running the fragment followed by declare -p (bash.py:42-53): each
\* statement of the fragment is executed and every variable is printed.
BashDeclareP(fragment) ==
    [n \in DOMAIN fragment |->
        IF ~fragment[n].assigned THEN fragment[n]
        ELSE DeclareAs(fragment[n].flags, n,
               CASE fragment[n].flags = "--" ->
                      BashQuote(BashWord(fragment[n].value, ""))
                 [] fragment[n].flags = "-a" ->
                      [k \in 1..Len(fragment[n].value) |->
                          [index |-> fragment[n].value[k].index,
                           value |-> BashQuote(BashWord(fragment[n].value[k].value, ""))]]
                 [] fragment[n].flags = "-A" ->
                      {[key |-> BashKey(BashWord(it.key, "")),
                        value |-> BashQuote(BashWord(it.value, ""))] :
                          it \in fragment[n].value})]
    @@ ShellDeclarations

\* shlex (posix): the characters of a part between double quotes; a
\* backslash escapes only " and \ and stays otherwise.
RECURSIVE ShlexQuoted(_)
ShlexQuoted(s) ==
    IF s = "" THEN ""
    ELSE IF Take(s, 1) = "\\" /\ Len(s) >= 2 /\ CharAt(s, 2) \in {"\"", "\\"}
    THEN CharAt(s, 2) \o ShlexQuoted(Drop(s, 2))
    ELSE Take(s, 1) \o ShlexQuoted(Drop(s, 1))

\* lexer.get_token() on a word of the output of declare -p: either a part
\* between double quotes or a run of word characters.
get_token(text) ==
    IF Len(text) >= 2 /\ Take(text, 1) = "\""
    THEN ShlexQuoted(SubSeq(text, 2, Len(text) - 1))
    ELSE text

\* _parse_indexed(lexer): the list grown so that each index exists, None at
\* the indices not given.
parse_indexed(items) ==
    LET index(k) == DecimalVal(get_token(items[k].index))
        len == IF items = <<>> THEN 0
               ELSE 1 + CHOOSE n \in {index(k) : k \in 1..Len(items)} :
                            \A k \in 1..Len(items) : index(k) <= n
    IN  [p \in 1..len |->
            IF \E k \in 1..Len(items) : index(k) = p - 1
            THEN parse_string(get_token(
                    items[CHOOSE k \in 1..Len(items) : index(k) = p - 1].value))
            ELSE None]

\* _parse_assoc(lexer)
parse_assoc(items) ==
    [key \in {get_token(it.key) : it \in items} |->
        parse_string(get_token(
            (CHOOSE it \in items : get_token(it.key) = key).value))]

\* _parse_var(lexer): the value of one declare statement.
parse_var(statement) ==
    LET var_flags == IF statement.flags # "--"
                     THEN {CharAt(statement.flags, k) : k \in 2..Len(statement.flags)}
                     ELSE {}
    IN  IF ~statement.assigned THEN NoneV
        ELSE IF "a" \in var_flags THEN ListV(parse_indexed(statement.value))
        ELSE IF "A" \in var_flags THEN AssocV(parse_assoc(statement.value))
        ELSE StrV(parse_string(get_token(statement.value)))

\* get_declarations(src) for a script that is a fragment of declare
\* statements: the variables (such a script declares no function).
get_declarations(fragment) ==
    LET declarations == BashDeclareP(fragment) IN
    [n \in DOMAIN declarations \ default_variables |-> parse_var(declarations[n])]

(***************************************************************************)
(* Inputs: recipe scripts                                                  *)
(***************************************************************************)
\* A script is known by what bash.get_declarations extracts from it:
\* [vars |-> name -> value, funcs |-> name -> body text].  The body of the
\* function f of the script text T is the text T/f.
RecipeText == "recipe"
Body(text, f) == text \o "/" \o f

PackageNames == {"a", "a_1", "b"}
Texts == {RecipeText} \cup {Body(RecipeText, n) : n \in PackageNames}

Declarations(vars, funcs) == [vars |-> vars, funcs |-> funcs]
Funcs(text, names) == [f \in names |-> Body(text, f)]

\* How many declarations of a template script an input script changes.
MaxEdits == 1

CommonVars ==
    ("timestamp" :> StrV("2021-01-01T00:00:00Z")) @@ ("maintainer" :> StrV("m"))
    @@ ("pkgdesc" :> StrV("d")) @@ ("url" :> StrV("u"))
    @@ ("section" :> StrV("s")) @@ ("license" :> StrV("l"))

NoDeclarations == [text \in Texts |-> Declarations(Empty, Empty)]

\* A single-package recipe without sources, in the directory a.
Template1 ==
    [name |-> "a",
     decl |-> (RecipeText :> Declarations(
                 ("pkgnames" :> ListV(<<"a">>)) @@ ("pkgver" :> StrV("1.2-3"))
                 @@ CommonVars,
                 Funcs(RecipeText, {"package"})))
              @@ NoDeclarations]

\* A single-package recipe with an image, a remote and a local source, in
\* the directory r.
Template2 ==
    [name |-> "r",
     decl |-> (RecipeText :> Declarations(
                 ("pkgnames" :> ListV(<<"a">>)) @@ ("pkgver" :> StrV("2:0.9-1"))
                 @@ ("image" :> StrV("qt:v1"))
                 @@ ("source" :> ListV(<<"https://h/f.zip", "g.txt">>))
                 @@ ("sha256sums" :> ListV(<<"d1", "SKIP">>))
                 @@ ("noextract" :> ListV(<<"f.zip">>))
                 @@ CommonVars,
                 Funcs(RecipeText, {"prepare", "build", "package", "configure"})))
              @@ NoDeclarations]

\* A split recipe of the packages a and a_1 with one local source.
Template3 ==
    [name |-> "r",
     decl |-> (RecipeText :> Declarations(
                 ("pkgnames" :> ListV(<<"a", "a_1">>)) @@ ("pkgver" :> StrV("1"))
                 @@ ("source" :> ListV(<<"src/f.zip">>))
                 @@ ("sha256sums" :> ListV(<<"d1">>))
                 @@ CommonVars,
                 Funcs(RecipeText, {"a", "a_1"})))
              @@ (Body(RecipeText, "a") :> Declarations(
                 ("pkgdesc" :> StrV("da")),
                 Funcs(Body(RecipeText, "a"), {"package"})))
              @@ (Body(RecipeText, "a_1") :> Declarations(
                 ("arch" :> StrV("x")),
                 Funcs(Body(RecipeText, "a_1"), {"package", "preremove"})))
              @@ NoDeclarations]

Templates == {Template1, Template2, Template3}

RecipeFields == {"pkgnames", "timestamp", "maintainer", "image", "source",
                 "noextract", "sha256sums"}
PackageFields == {"pkgver", "arch", "pkgdesc", "url", "section", "license",
                  "depends", "conflicts"}

\* The values an edit may give a variable.
Values(field) ==
    CASE field = "pkgnames" ->
           {ListV(<<>>), ListV(<<"a", "a_1">>), ListV(<<"a", "b">>),
            ListV(<<None, "a">>), ListV(<<"b">>), StrV("a"), DictV, NoneV}
      [] field = "timestamp" ->
           {StrV("2021-06-01T12:00:00+00:00"), StrV("yesterday"), ListV(<<>>)}
      [] field = "maintainer" -> {ListV(<<"m">>), NoneV}
      [] field = "image" -> {StrV("qt:v1"), StrV(""), ListV(<<"qt:v1">>)}
      [] field = "source" -> {ListV(<<"g.txt">>), StrV("g.txt"), ListV(<<>>)}
      [] field = "sha256sums" ->
           {ListV(<<"SKIP">>), ListV(<<"d2">>), ListV(<<None>>),
            ListV(<<"d2", "d1">>), DictV}
      [] field = "noextract" -> {ListV(<<"g.txt">>), StrV("f.zip")}
      [] field = "pkgver" ->
           {StrV("1"), StrV("1.2-3"), StrV("3:1.2-3"), StrV("1-2-3"),
            StrV("x:1"), StrV("1-"), StrV(""), StrV("1_0"), ListV(<<"1">>)}
      [] field = "arch" -> {StrV("x"), StrV("1_x"), NoneV}
      [] field = "depends" -> {ListV(<<"d", None, "e">>), StrV("d")}
      [] field = "conflicts" -> {ListV(<<"c">>), DictV}
      [] OTHER -> {StrV("other"), ListV(<<"other">>), DictV, NoneV}

FunctionNames == {"prepare", "build", "package", "a", "a_1"} \cup InstallHooks

\* An edit of the text t: a variable set or unset, a function defined or
\* removed.
Edits ==
    UNION {{<<RecipeText, "set", f, v>> : v \in Values(f)} :
                  f \in RecipeFields \cup PackageFields}
    \cup UNION {{<<Body(RecipeText, "a"), "set", f, v>> : v \in Values(f)} :
                  f \in {"pkgver", "arch", "pkgdesc"}}
    \cup {<<RecipeText, "unset", f, NoneV>> : f \in RecipeFields \cup PackageFields}
    \cup {<<RecipeText, op, f, NoneV>> : op \in {"def", "undef"}, f \in FunctionNames}
    \cup {<<Body(RecipeText, "a"), "undef", "package", NoneV>>}

ApplyEdit(decl, e) ==
    LET t == e[1]
        d == decl[t]
    IN  [decl EXCEPT ![t] =
            CASE e[2] = "set" -> [d EXCEPT !.vars = (e[3] :> e[4]) @@ d.vars]
              [] e[2] = "unset" -> [d EXCEPT !.vars = DictDel(d.vars, e[3])]
              [] e[2] = "def" -> [d EXCEPT !.funcs = (e[3] :> Body(t, e[3])) @@ d.funcs]
              [] e[2] = "undef" -> [d EXCEPT !.funcs = DictDel(d.funcs, e[3])]]

RECURSIVE ApplyEdits(_, _)
ApplyEdits(decl, es) ==
    IF es = <<>> THEN decl ELSE ApplyEdits(ApplyEdit(decl, Head(es)), Tail(es))

EditLists == UNION {[1..n -> Edits] : n \in 0..MaxEdits}

\* The package lists a caller passes to Recipe.make: <<>> is None (all the
\* packages of the recipe), <<list>> an explicit list.
Requests ==
    {<<>>, <<<<>>>>, <<<<"a">>>>, <<<<"a_1", "a">>>>, <<<<"a", "a_1">>>>,
     <<<<"zz">>>>, <<<<"a", "zz", "a_1">>>>, <<<<"r">>>>}

\* The SHA-256 digests a transferred file may have.
Digests == {"d1", "d2"}
\* The status codes of requests.get.
StatusCodes == {200, 404}

(***************************************************************************)
(* State                                                                   *)
(***************************************************************************)
VARIABLES
    name,       \* the name the recipe is loaded under
    decl,       \* the declarations of the recipe script and its functions
    pc,         \* where the program stands
    recipe,     \* the Recipe object, once constructed
    error,      \* the exception that ended the constructor or make, if any
    request,    \* the `packages` argument of Recipe.make
    i,          \* fetch_source: index of the next (source, checksum) pair
    j,          \* make: index of the next package of the loop
    trace,      \* the pipeline stages entered, in order
    fetched,    \* the transfers done, each with its outcome
    extracted,  \* the local paths handed to util.auto_extract
    ran,        \* the scripts handed to the script/container executors
    out,        \* the archive files written
    runs,       \* the calls of ipk.make_ipk made directly, with their results
    roundtrip,  \* a variable set, its rendering and what is extracted from it
    members,    \* the member paths of an archive and their stripped paths
    reparse     \* a Version built directly, its string and the parse of it

\* The state of the library functions called on their own.
lib == <<runs, roundtrip, members, reparse>>

NoRoundTrip == [stage |-> "none"]
NoMembers == [stage |-> "none"]
NoReparse == [stage |-> "none"]

vars == <<name, decl, pc, recipe, error, request, i, j, trace, fetched,
          extracted, ran, out, lib>>

NoRecipe == [none |-> TRUE]

\* _IMAGE_PREFIX and _DEFAULT_IMAGE
IMAGE_PREFIX == "ghcr.io/toltec-dev/"
DEFAULT_IMAGE == "base:v1.2.2"

Init ==
    /\ \E t \in Templates, es \in EditLists :
          /\ name = t.name
          /\ decl = ApplyEdits(t.decl, es)
    /\ pc = "new"
    /\ recipe = NoRecipe
    /\ error = NoErr
    /\ request = <<>>
    /\ i = 1
    /\ j = 1
    /\ trace = <<>>
    /\ fetched = <<>>
    /\ extracted = <<>>
    /\ ran = <<>>
    /\ out = <<>>
    /\ runs = <<>>
    /\ roundtrip = NoRoundTrip
    /\ members = NoMembers /\ reparse = NoReparse

\* Recipe.from_file / Recipe(name, root, source)
Construct ==
    /\ pc = "new"
    /\ \E r \in {RecipeInit(name, RecipeText, decl)} :
          IF IsOk(r)
          THEN recipe' = r.val /\ error' = NoErr /\ pc' = "ready"
          ELSE recipe' = NoRecipe /\ error' = r.err /\ pc' = "invalid"
    /\ UNCHANGED <<lib, name, decl, request, i, j, trace, fetched, extracted, ran, out>>

Stage(stage, package) == [stage |-> stage, package |-> package]

\* The packages make loops over (recipe.py:165-166).
Selected == IF request = <<>> THEN recipe.order ELSE request[1]

\* Recipe.make is called: fetch_source starts.
Make(packages) ==
    /\ pc = "ready"
    /\ request' = packages
    /\ trace' = Append(trace, Stage("Fetched", ""))
    /\ pc' = "fetch"
    /\ UNCHANGED <<lib, name, decl, recipe, error, i, j, fetched, extracted, ran, out>>

\* The turn of the loop of fetch_source with the raises of recipe.py:207
\* and 216 turned into a report: the loop goes on to the next source.
FetchSourceKeepGoing(status, digest) ==
    /\ pc = "fetch"
    /\ i <= Len(recipe.source)
    /\ LET source == OrEmpty(recipe.source[i])
           checksum == OrEmpty(recipe.sha256sums[i])
           file == Basename(source)
           remote == IsUrl(source)
           outcome == IF remote /\ status # 200 THEN "status"
                      ELSE IF ChecksumFails(checksum, digest) THEN "checksum"
                      ELSE "ok"
       IN
       /\ fetched' = Append(fetched,
             [source |-> source, checksum |-> checksum, remote |-> remote,
              status |-> IF remote THEN status ELSE 200,
              digest |-> digest, outcome |-> outcome])
       /\ extracted' = IF outcome = "ok" /\ file \notin Range(recipe.noextract)
                       THEN Append(extracted, "src/" \o file) ELSE extracted
       /\ error' = IF outcome = "ok" THEN error
                   ELSE Raise("BuildError", <<"Could not fetch ", source>>, source)
    /\ i' = i + 1
    /\ UNCHANGED <<lib, name, decl, recipe, request, j, trace, ran, out, pc>>

\* One turn of the loop of fetch_source (recipe.py:192-220); status is the
\* status code of requests.get and digest the SHA-256 of the file written.
FetchSource(status, digest) ==
    /\ pc = "fetch"
    /\ i <= Len(recipe.source)
    /\ LET source == OrEmpty(recipe.source[i])
           checksum == OrEmpty(recipe.sha256sums[i])
           file == Basename(source)
           local_path == "src/" \o file
           remote == IsUrl(source)
           done(outcome) == Append(fetched,
               [source |-> source, checksum |-> checksum, remote |-> remote,
                status |-> IF remote THEN status ELSE 200,
                digest |-> digest, outcome |-> outcome])
       IN
       IF remote /\ status # 200
       THEN /\ error' = Raise("BuildError",
                   <<"Unexpected status code while fetching source file '",
                     source, "', got ", ToString(status)>>, source)
            /\ fetched' = done("status")
            /\ pc' = "failed"
            /\ UNCHANGED <<i, extracted>>
       ELSE IF ChecksumFails(checksum, digest)
       THEN /\ error' = Raise("BuildError",
                   <<"Invalid checksum for source file ", source>>, source)
            /\ fetched' = done("checksum")
            /\ pc' = "failed"
            /\ UNCHANGED <<i, extracted>>
       ELSE /\ fetched' = done("ok")
            /\ extracted' = IF file \notin Range(recipe.noextract)
                            THEN Append(extracted, local_path) ELSE extracted
            /\ i' = i + 1
            /\ UNCHANGED <<error, pc>>
    /\ UNCHANGED <<lib, name, decl, recipe, request, j, trace, ran, out>>

Script(image, script) == [image |-> image, script |-> script]

\* Recipe.prepare without the test of recipe.py:231-233: the script is run
\* whether or not a prepare() body is declared.
PrepareUnconditionally ==
    /\ pc = "fetch"
    /\ i > Len(recipe.source)
    /\ trace' = Append(trace, Stage("Prepared", ""))
    /\ ran' = Append(ran, Script("", recipe.actions.prepare))
    /\ pc' = "prepared"
    /\ UNCHANGED <<lib, name, decl, recipe, error, request, i, j, fetched, extracted, out>>

\* Recipe.prepare, called when fetch_source has returned.
Prepare ==
    /\ pc = "fetch"
    /\ i > Len(recipe.source)
    /\ trace' = Append(trace, Stage("Prepared", ""))
    /\ ran' = IF recipe.actions.prepare = "" THEN ran
              ELSE Append(ran, Script("", recipe.actions.prepare))
    /\ pc' = "prepared"
    /\ UNCHANGED <<lib, name, decl, recipe, error, request, i, j, fetched, extracted, out>>

\* Recipe.build
Build ==
    /\ pc = "prepared"
    /\ trace' = Append(trace, Stage("Built", ""))
    /\ ran' = IF recipe.actions.build = "" THEN ran
              ELSE Append(ran, Script(IMAGE_PREFIX \o recipe.image,
                                      recipe.actions.build))
    /\ pc' = "built"
    /\ UNCHANGED <<lib, name, decl, recipe, error, request, i, j, fetched, extracted, out>>

\* Recipe.strip called in the place of Recipe.build.
StripBeforeBuild ==
    /\ pc = "prepared"
    /\ trace' = Append(trace, Stage("Stripped", ""))
    /\ ran' = Append(ran, Script(IMAGE_PREFIX \o DEFAULT_IMAGE, "strip"))
    /\ pc' = "stripped"
    /\ UNCHANGED <<lib, name, decl, recipe, error, request, i, j, fetched, extracted, out>>

\* Recipe.strip
Strip ==
    /\ pc = "built"
    /\ trace' = Append(trace, Stage("Stripped", ""))
    /\ ran' = Append(ran, Script(IMAGE_PREFIX \o DEFAULT_IMAGE, "strip"))
    /\ pc' = "stripped"
    /\ UNCHANGED <<lib, name, decl, recipe, error, request, i, j, fetched, extracted, out>>

\* The message of recipe.py:168-169 written as a plain string literal.
UnknownPackageMsgLiteral(package, recipe_name) ==
    <<"Package {package} does not exist in recipe {self.name}">>

\* Message of the raise at recipe.py:168-169 (an f-string).
UnknownPackageMsg(package, recipe_name) ==
    <<"Package ", package, " does not exist in recipe ", recipe_name>>

\* The turn of the loop of make with the test of recipe.py:167 made on
\* every name still to come: an unknown name fails the make before the
\* packages listed ahead of it are packaged.
PackageStepCheckingAhead ==
    /\ pc \in {"stripped", "archived"}
    /\ j <= Len(Selected)
    /\ LET package == Selected[j]
           unknown == {k \in j..Len(Selected) :
                          Selected[k] \notin DOMAIN recipe.packages}
       IN
       IF unknown # {}
       THEN /\ error' = Raise("BuildError",
                   UnknownPackageMsg(Selected[CHOOSE k \in unknown : TRUE],
                                     recipe.name),
                   Selected[CHOOSE k \in unknown : TRUE])
            /\ pc' = "failed"
            /\ UNCHANGED <<trace, ran>>
       ELSE /\ trace' = Append(trace, Stage("Packaged", package))
            /\ ran' = Append(ran, Script("", recipe.packages[package].action))
            /\ pc' = "packaged"
            /\ UNCHANGED error
    /\ UNCHANGED <<lib, name, decl, recipe, request, i, j, fetched, extracted, out>>

\* recipe.py:167-173: the existence check of the next package of the loop
\* and Package.package.
PackageStep ==
    /\ pc \in {"stripped", "archived"}
    /\ j <= Len(Selected)
    /\ LET package == Selected[j] IN
       IF package \notin DOMAIN recipe.packages
       THEN /\ error' = Raise("BuildError",
                   UnknownPackageMsg(package, recipe.name), package)
            /\ pc' = "failed"
            /\ UNCHANGED <<trace, ran>>
       ELSE /\ trace' = Append(trace, Stage("Packaged", package))
            /\ ran' = Append(ran, Script("", recipe.packages[package].action))
            /\ pc' = "packaged"
            /\ UNCHANGED error
    /\ UNCHANGED <<lib, name, decl, recipe, request, i, j, fetched, extracted, out>>

\* The content Package.package leaves in a packaging directory, in the
\* order TarFile.add walks it.
Directory(path) == [path |-> path, mode |-> 493, data |-> [dir |-> TRUE]]
File(path, mode, bytes) == [path |-> path, mode |-> mode, data |-> [bytes |-> bytes]]
PackageFiles == <<Directory(""), Directory("opt"), File("opt/f", 420, "f")>>

\* What os.lstat reports for files written by the user running the build.
BuildUser == [uid |-> 1000, gid |-> 1000, uname |-> "user", gname |-> "user",
              mtime |-> 1700000000]

\* The file tree Package.package leaves under pkg_dir, as TarFile.add walks
\* it: the directory itself first.
Tree(pkg_dir) == TarAdd(pkg_dir, PackageFiles, BuildUser)

\* recipe.py:171-174 and Package.archive: the archive of the package just
\* packaged is written.
ArchiveStep ==
    /\ pc = "packaged"
    /\ LET package == Selected[j]
           pkg == recipe.packages[package]
           sub_pkg_dir == "pkg/" \o package
       IN
       /\ trace' = Append(trace, Stage("Archived", package))
       /\ out' = Append(out,
             [path |-> "pkg/" \o filename(pkg), package |-> package]
             @@ make_ipk(recipe.timestamp, sub_pkg_dir, Tree(sub_pkg_dir),
                         control_fields(pkg, recipe.maintainer),
                         install_scripts(pkg)))
    /\ j' = j + 1
    /\ pc' = "archived"
    /\ UNCHANGED <<lib, name, decl, recipe, error, request, i, fetched, extracted, ran>>

\* make returns.
Return ==
    /\ pc \in {"stripped", "archived"}
    /\ j > Len(Selected)
    /\ pc' = "done"
    /\ UNCHANGED <<lib, name, decl, recipe, error, request, i, j, trace, fetched,
                   extracted, ran, out>>

Next ==
    \/ Construct
    \/ \E packages \in Requests : Make(packages)
    \/ \E status \in StatusCodes, digest \in Digests : FetchSource(status, digest)
    \/ Prepare
    \/ Build
    \/ Strip
    \/ PackageStep
    \/ ArchiveStep
    \/ Return

Spec == Init /\ [][Next]_vars

(***************************************************************************)
(* ipk.make_ipk called on its own                                          *)
(***************************************************************************)
\* How many calls of make_ipk are compared.
MaxRuns == 2

\* The packaging directories make_ipk is handed: relative ones and
\* absolute ones.
PkgDirs == {"pkg/a", "./pkg/a", "/w/pkg/a", "/v/pkg/a"}

\* Contents of a packaging directory.
Contents == {PackageFiles,
             <<Directory(""), Directory("opt"), File("opt/f", 493, "g"),
               File("opt/h", 420, "")>>}

\* What os.lstat reports for the files: owner ids, owner names and
\* modification time.
Stats == {BuildUser,
          [uid |-> 0, gid |-> 0, uname |-> "root", gname |-> "root",
           mtime |-> 1600000000]}

Epochs == {1609459200, 1622548800}

ScriptSets == {<<>>, <<[name |-> "postinst",
                        script |-> <<Guard("configure", "recipe/configure")>>]>>}

Metadata == <<<<"Package", "a">>, <<"Version", "1">>>>

\* The rest of the program stands still while a library function is
\* called on its own.
PipelineIdle ==
    /\ name = Template1.name
    /\ decl = Template1.decl
    /\ pc = "new"
    /\ recipe = NoRecipe
    /\ error = NoErr
    /\ request = <<>>
    /\ i = 1
    /\ j = 1
    /\ trace = <<>>
    /\ fetched = <<>>
    /\ extracted = <<>>
    /\ ran = <<>>
    /\ out = <<>>

pipeline == <<name, decl, pc, recipe, error, request, i, j, trace, fetched,
              extracted, ran, out>>

IpkInit ==
    PipelineIdle /\ runs = <<>> /\ roundtrip = NoRoundTrip /\ members = NoMembers /\ reparse = NoReparse

\* One call make_ipk(file, epoch, pkg_dir, metadata, scripts) with the
\* directory pkg_dir holding `files`, owned and dated as `stat` says.
MakeIpk(epoch, pkg_dir, files, stat, scripts) ==
    /\ Len(runs) < MaxRuns
    /\ runs' = Append(runs,
          [epoch |-> epoch, pkg_dir |-> pkg_dir, files |-> files, stat |-> stat,
           metadata |-> Metadata, scripts |-> scripts,
           file |-> make_ipk(epoch, pkg_dir, TarAdd(pkg_dir, files, stat),
                             Metadata, scripts)])
    /\ UNCHANGED <<pipeline, roundtrip, members, reparse>>

IpkNext ==
    \E epoch \in Epochs, pkg_dir \in PkgDirs, files \in Contents, stat \in Stats,
       scripts \in ScriptSets : MakeIpk(epoch, pkg_dir, files, stat, scripts)

IpkSpec == IpkInit /\ [][IpkNext]_vars

(***************************************************************************)
(* bash.put_variables and bash.get_declarations called on their own        *)
(***************************************************************************)
\* The values of the variables rendered: None, scalars, indexed arrays
\* (with Unset slots) and associative arrays.
BashValues ==
    {NoneV}
    \cup {StrV(v) : v \in {"a", "", "a b", "$a", "a'b", "a\"b", "a\\b", "a\\$b",
                           "a=b", "-a", "#", "("}}
    \cup {ListV(l) : l \in {<<>>, <<"a", "b">>, <<"a", None, "b">>, <<"a", None>>,
                            <<None>>, <<None, "a">>, <<"$a", "a b", "">>,
                            <<"a'b", "a\\b">>}}
    \cup {AssocV(d) : d \in {Empty, "k" :> "v", "k k" :> "v v", "k" :> "$v",
                             "$k" :> "v", "k-1" :> "", "a\"b" :> "a'b",
                             ("a" :> "1") @@ ("b" :> "2")}}

\* The sets of variables rendered: of one variable or of two.
VariableSets ==
    {Empty}
    \cup {n :> v : n \in {"x", "PATH"}, v \in BashValues}
    \cup {("x" :> v) @@ ("y" :> StrV("1")) : v \in BashValues}

BashInit ==
    /\ PipelineIdle
    /\ runs = <<>>
    /\ members = NoMembers /\ reparse = NoReparse
    /\ \E variables \in VariableSets :
          roundtrip = [stage |-> "given", variables |-> variables]

\* bash.put_variables(variables)
PutVariables ==
    /\ roundtrip.stage = "given"
    /\ roundtrip' = [stage |-> "rendered", variables |-> roundtrip.variables,
                     fragment |-> put_variables(roundtrip.variables)]
    /\ UNCHANGED <<pipeline, runs, members, reparse>>

\* bash.get_declarations(src) on the fragment rendered
GetDeclarations ==
    /\ roundtrip.stage = "rendered"
    /\ roundtrip' = [stage |-> "extracted", variables |-> roundtrip.variables,
                     fragment |-> roundtrip.fragment,
                     declared |-> get_declarations(roundtrip.fragment)]
    /\ UNCHANGED <<pipeline, runs, members, reparse>>

BashNext ==
    \/ PutVariables
    \/ GetDeclarations

BashSpec == BashInit /\ [][BashNext]_vars

(***************************************************************************)
(* util.remove_prefix called on its own                                    *)
(***************************************************************************)
\* How many members an archive has at most.
MaxMembers == 3

\* The member paths of an archive (zipfile.ZipFile.namelist): relative
\* paths, those of directories ending with a slash.
MemberPaths == {"foo/", "foo/bar/", "foo/bar/a", "foo/bar/b", "foo/c",
                "only/thing.txt", "d"}

MemberLists == UNION {[1..n -> MemberPaths] : n \in 1..MaxMembers}

UtilInit ==
    /\ PipelineIdle
    /\ runs = <<>>
    /\ roundtrip = NoRoundTrip
    /\ \E filenames \in MemberLists :
          members = [stage |-> "given", filenames |-> filenames]
    /\ reparse = NoReparse

\* util.remove_prefix(filenames), as auto_extract calls it (util.py:87)
RemovePrefixOfMembers ==
    /\ members.stage = "given"
    /\ members' = [stage |-> "stripped", filenames |-> members.filenames,
                   mapping |-> remove_prefix(members.filenames)]
    /\ UNCHANGED <<pipeline, runs, roundtrip, reparse>>

UtilNext == RemovePrefixOfMembers

UtilSpec == UtilInit /\ [][UtilNext]_vars

(***************************************************************************)
(* version.Version built directly, formatted and parsed back               *)
(***************************************************************************)
Upstreams == {"1", "1.2", "1-2", "1-", "a+b~c", "0", "", "1_0"}
Revisions == {"0", "3", "1-1", "r1", ""}
\* The epochs are the unsigned ones of the Debian format.
VersionEpochs == {0, 1, 2, 10}

\* Version(upstream, revision, epoch) is called.
VersionSpecInit ==
    /\ PipelineIdle
    /\ runs = <<>> /\ roundtrip = NoRoundTrip /\ members = NoMembers
    /\ \E upstream \in Upstreams, revision \in Revisions, epoch \in VersionEpochs :
          \E v \in {VersionInit(upstream, revision, epoch)} :
             reparse = IF IsOk(v) THEN [stage |-> "built", version |-> v.val]
                       ELSE [stage |-> "refused", error |-> v.err]

\* str(version)
StrOfVersion ==
    /\ reparse.stage = "built"
    /\ reparse' = [stage |-> "formatted", version |-> reparse.version,
                   str |-> VersionStr(reparse.version)]
    /\ UNCHANGED <<pipeline, runs, roundtrip, members>>

\* Version.parse(str(version))
ParseOfStr ==
    /\ reparse.stage = "formatted"
    /\ reparse' = [stage |-> "parsed", version |-> reparse.version,
                   str |-> reparse.str, result |-> VersionParse(reparse.str)]
    /\ UNCHANGED <<pipeline, runs, roundtrip, members>>

VersionNext == StrOfVersion \/ ParseOfStr

VersionSpec == VersionSpecInit /\ [][VersionNext]_vars

(***************************************************************************)
(* Claims                                                                  *)
(***************************************************************************)
Constructed == pc \notin {"new", "invalid"}
InMake == pc \notin {"new", "invalid", "ready"}

IsPrefix(s, t) == Len(s) <= Len(t) /\ SubSeq(t, 1, Len(s)) = s

StageRank(stage) ==
    CASE stage = "Fetched" -> 1 [] stage = "Prepared" -> 2 [] stage = "Built" -> 3
      [] stage = "Stripped" -> 4 [] stage = "Packaged" -> 5 [] stage = "Archived" -> 6

RECURSIVE PerPackage(_)
PerPackage(selected) ==
    IF selected = <<>> THEN <<>>
    ELSE <<Stage("Packaged", Head(selected)), Stage("Archived", Head(selected))>>
         \o PerPackage(Tail(selected))

ExpectedTrace(selected) ==
    <<Stage("Fetched", ""), Stage("Prepared", ""), Stage("Built", ""),
      Stage("Stripped", "")>> \o PerPackage(selected)

\* C1, as stated: over a whole make, whatever the selection of packages, no
\* stage is entered after a later stage of Fetched, Prepared, Built,
\* Stripped, Packaged, Archived has been entered.
C1_NoStageAfterLaterStage ==
    \A a, b \in 1..Len(trace) :
        a < b => StageRank(trace[a].stage) <= StageRank(trace[b].stage)

\* C1, amended: make enters Fetched, Prepared, Built and Stripped once each
\* in that order and then, for each selected package in the order of the
\* selection, Packaged and then Archived for that package; a make that
\* returns has entered exactly these stages.
C1_StagesOncePerPackage ==
    /\ ~InMake => trace = <<>>
    /\ InMake => IsPrefix(trace, ExpectedTrace(Selected))
    /\ pc = "done" => trace = ExpectedTrace(Selected)

C1_Witness == pc = "done" /\ Len(Selected) >= 2

\* C2: the identifier of a package is name_pkgver_arch with the pkgver
\* string exactly as declared, and its filename the identifier plus .ipk.
C2_PkgidKeepsDeclaredVersion ==
    Constructed =>
        \A k \in DOMAIN recipe.packages :
            LET package == recipe.packages[k]
                declared == package.bash_variables["pkgver"].s
                id == package.name \o "_" \o declared \o "_" \o package.arch
            IN  pkgid(package) = id /\ filename(package) = id \o ".ipk"

BaseNames(archive) == [k \in 1..Len(archive.entries) |-> Basename(archive.entries[k].name)]

DebianBinaryIsVersion2(archive) ==
    \A k \in 1..Len(archive.entries) :
        Basename(archive.entries[k].name) = "debian-binary"
            => archive.entries[k].data = [bytes |-> "2.0\n"]

C4_PkgidsDistinct ==
    Constructed =>
        \A p, q \in DOMAIN recipe.packages :
            p # q => pkgid(recipe.packages[p]) # pkgid(recipe.packages[q])

\* C5: a constructed recipe has a non-empty list of package names and at
\* least one package.
C5_PackagesNonEmpty ==
    Constructed => Len(recipe.pkgnames) >= 1 /\ DOMAIN recipe.packages # {}

\* C6: the message of every validation failure of the constructor names
\* the field, function or package the failing check is about.
C6_FailureNamesOffender ==
    (pc = "invalid" /\ error.kind = "InvalidRecipeError")
        => error.about \in Range(error.msg)

(***************************************************************************)
(* C7: the schema, as the claim gives it                                   *)
(***************************************************************************)
RequiredFields == {"pkgnames", "timestamp", "maintainer", "pkgver", "pkgdesc",
                   "url", "section", "license"}
IndexedFields == {"pkgnames", "source", "sha256sums", "noextract", "depends",
                  "conflicts"}
ExpectedShape(f) == IF f \in IndexedFields THEN "list" ELSE "str"
ShapeWord(t) == IF t = "list" THEN "indexed array" ELSE "string"

RecipeOrder == <<"pkgnames", "timestamp", "maintainer", "image", "source",
                 "noextract", "sha256sums">>
PackageOrder == <<"pkgver", "arch", "pkgdesc", "url", "section", "license",
                  "depends", "conflicts">>

Absent(v, f) == f \notin DOMAIN v
Misshapen(v, f) == f \in DOMAIN v /\ v[f].t # ExpectedShape(f)
Defective(v, f) == (Absent(v, f) /\ f \in RequiredFields) \/ Misshapen(v, f)

\* The failure names the field and, for a wrong shape, the expected and
\* the actual shape.
NamesDefect(err, v, f) ==
    /\ err.kind = "InvalidRecipeError"
    /\ f \in Range(err.msg)
    /\ Misshapen(v, f) =>
          ShapeWord(ExpectedShape(f)) \in Range(err.msg) /\ v[f].t \in Range(err.msg)

\* No check of the constructor that comes before those of the package
\* fields fails.
RecipeLevelValid(v, funcs) ==
    /\ \A f \in RecipeFields : ~Defective(v, f)
    /\ IsOk(IsoParse(v["timestamp"].s))
    /\ Len(DictGet(v, "source", ListV(<<>>)).l)
         = Len(DictGet(v, "sha256sums", ListV(<<>>)).l)
    /\ (DictGet(v, "image", StrV("")).s # "") <=> ("build" \in DOMAIN funcs)

\* The first defective field of a scope is the one the failure names,
\* when nothing fails before its check.
FirstDefectNamed(v, order, k, earlierOk) ==
    (/\ Defective(v, order[k])
     /\ \A m \in 1..(k - 1) : ~Defective(v, order[m])
     /\ earlierOk)
        => pc = "invalid" /\ NamesDefect(error, v, order[k])

\* C7: a missing required field or a field of the wrong shape makes the
\* constructor fail, and the failure names the field (for a wrong shape
\* also the expected and the actual shape): a constructed recipe has no
\* such field in its own declarations or in the effective declarations of
\* a package; the first such field in the order of the checks is the one
\* named; an absent optional field takes its default.
C7_FieldValidation ==
    LET rv == decl[RecipeText].vars
        rf == decl[RecipeText].funcs
    IN
    /\ Constructed =>
        /\ recipe.bash_variables = rv
        /\ \A f \in RecipeFields : ~Defective(rv, f)
        /\ \A p \in DOMAIN recipe.packages : \A f \in PackageFields :
              ~Defective(recipe.packages[p].bash_variables, f)
        /\ Absent(rv, "image") => recipe.image = ""
        /\ Absent(rv, "source") => recipe.source = <<>>
        /\ Absent(rv, "sha256sums") => recipe.sha256sums = <<>>
        /\ Absent(rv, "noextract") => recipe.noextract = <<>>
        /\ \A p \in DOMAIN recipe.packages :
              LET package == recipe.packages[p] IN
              /\ Absent(package.bash_variables, "arch") => package.arch = "armv7-3.2"
              /\ Absent(package.bash_variables, "depends") => package.depends = <<>>
              /\ Absent(package.bash_variables, "conflicts") => package.conflicts = <<>>
    /\ pc # "new" =>
        /\ \A k \in 1..Len(RecipeOrder) :
              FirstDefectNamed(rv, RecipeOrder, k,
                  k > 2 => (~Defective(rv, "timestamp")
                            /\ IsOk(IsoParse(rv["timestamp"].s))))
        /\ (RecipeLevelValid(rv, rf) /\ Len(rv["pkgnames"].l) >= 1
             /\ (Len(rv["pkgnames"].l) > 1 => rv["pkgnames"].l[1] \in DOMAIN rf)) =>
              LET first == rv["pkgnames"].l[1]
                  ev == IF Len(rv["pkgnames"].l) = 1 THEN rv
                        ELSE DictMerge(rv, decl[rf[first]].vars)
              IN  \A k \in 1..Len(PackageOrder) :
                      FirstDefectNamed(ev, PackageOrder, k,
                          k > 1 => (~Defective(ev, "pkgver")
                                    /\ IsOk(VersionParse(ev["pkgver"].s))))

C7_Witness ==
    /\ pc = "invalid"
    /\ error = Raise("InvalidRecipeError",
                     <<"Missing required field ", "pkgdesc">>, "pkgdesc")

\* Recipe.build has handed the build() body to the container executor.
BuildRan ==
    /\ "build" \in DOMAIN recipe.bash_functions
    /\ \E k \in 1..Len(ran) : ran[k].script = recipe.bash_functions["build"]

BuildStagePassed == \E k \in 1..Len(trace) : trace[k].stage = "Built"

\* C8: a constructed recipe declares a non-empty image iff it declares
\* build(), and the Build stage of make runs the build script iff an image
\* is declared.
C8_ImageIffBuild ==
    Constructed =>
        /\ (recipe.image # "") <=> ("build" \in DOMAIN recipe.bash_functions)
        /\ BuildStagePassed => (BuildRan <=> recipe.image # "")

C8_Witness ==
    /\ Constructed /\ BuildStagePassed
    /\ recipe.image # "" /\ BuildRan

\* C9: make never packages or archives a name that is no key of the
\* packages of the recipe, never returns when such a name was requested,
\* and fails at that name with a BuildError naming the recipe and the name.
C9_UnknownPackageFails ==
    InMake =>
        /\ \A k \in 1..Len(trace) :
              trace[k].stage \in {"Packaged", "Archived"}
                  => trace[k].package \in DOMAIN recipe.packages
        /\ \A k \in 1..Len(out) : out[k].package \in DOMAIN recipe.packages
        /\ pc = "done" => Range(Selected) \subseteq DOMAIN recipe.packages
        /\ (pc = "failed" /\ BuildStagePassed) =>
              /\ Selected[j] \notin DOMAIN recipe.packages
              /\ error.kind = "BuildError"
              /\ Selected[j] \in Range(error.msg)
              /\ recipe.name \in Range(error.msg)

C9_Witness ==
    /\ pc = "failed" /\ InMake /\ BuildStagePassed
    /\ j >= 2 /\ Selected[j] = "zz"

\* C10: a transferred file whose digest differs from a checksum other
\* than SKIP fails the build; with the checksum SKIP no checksum failure
\* occurs; with the digest equal to the checksum the fetch goes on.
C10_ChecksumVerification ==
    \A k \in 1..Len(fetched) :
        LET f == fetched[k] IN
        /\ (f.status = 200 /\ f.checksum # "SKIP" /\ f.digest # f.checksum) =>
              /\ f.outcome = "checksum"
              /\ k = Len(fetched) /\ pc = "failed" /\ error.kind = "BuildError"
        /\ f.checksum = "SKIP" => f.outcome # "checksum"
        /\ (f.status = 200 /\ (f.checksum = "SKIP" \/ f.digest = f.checksum)) =>
              /\ f.outcome = "ok"
              /\ (k = Len(fetched) /\ ~BuildStagePassed) => pc # "failed"

C10_Witness ==
    /\ Len(fetched) = 2
    /\ fetched[1].outcome = "ok" /\ fetched[1].checksum = fetched[1].digest
    /\ fetched[2].outcome = "checksum"
\* C11: two calls of make_ipk on the same directory content, control
\* metadata, scripts and epoch write the same file, whatever the owners and
\* dates of the files on disk.
C11_SameContentSameFile ==
    \A a, b \in 1..Len(runs) :
        (/\ runs[a].files = runs[b].files
         /\ runs[a].metadata = runs[b].metadata
         /\ runs[a].scripts = runs[b].scripts
         /\ runs[a].epoch = runs[b].epoch)
            => runs[a].file = runs[b].file

\* The members of the data sub-archive of an archive file.
DataMembers(file) == file.entries[2].data.tar

\* C17: for every packaging directory, relative or absolute, the name of
\* each member of data.tar.gz is ./ followed by the path relative to the
\* directory, the directory itself being the member named by a single dot.
C17_DataNamesRelative ==
    \A r \in 1..Len(runs) :
        /\ Len(DataMembers(runs[r].file)) = Len(runs[r].files)
        /\ \A k \in 1..Len(runs[r].files) :
              DataMembers(runs[r].file)[k].name =
                  IF runs[r].files[k].path = "" THEN "."
                  ELSE "./" \o runs[r].files[k].path
\* The set slots of an indexed array, each with its index.
SetSlots(l) == {<<k, l[k]>> : k \in {m \in 1..Len(l) : l[m] # None}}

\* Two values are the same but for the Unset slots of an indexed array.
SameButUnset(v, w) ==
    /\ v.t = w.t
    /\ v.t = "list" => SetSlots(v.l) = SetSlots(w.l)
    /\ v.t # "list" => v = w

\* C12: what get_declarations extracts from the rendering of a variable
\* set by put_variables is that variable set: the same names, each with
\* the same value but for the Unset slots of indexed arrays.
C12_ExtractOfRenderIsIdentity ==
    roundtrip.stage = "extracted" =>
        /\ DOMAIN roundtrip.declared = DOMAIN roundtrip.variables
        /\ \A n \in DOMAIN roundtrip.variables \cap DOMAIN roundtrip.declared :
              SameButUnset(roundtrip.declared[n], roundtrip.variables[n])
\* The components of a path: its maximal runs of characters other than
\* the slash, in order.
ComponentStarts(path) ==
    {k \in 1..Len(path) :
        CharAt(path, k) # "/" /\ (k = 1 \/ CharAt(path, k - 1) = "/")}

ComponentFrom(path, k) ==
    SubSeq(path, k,
           CHOOSE e \in k..Len(path) :
               /\ \A m \in k..e : CharAt(path, m) # "/"
               /\ (e = Len(path) \/ CharAt(path, e + 1) = "/"))

Components(path) ==
    [n \in 1..Cardinality(ComponentStarts(path)) |->
        ComponentFrom(path,
            CHOOSE k \in ComponentStarts(path) :
                Cardinality({m \in ComponentStarts(path) : m < k}) = n - 1)]

\* Every member has at least n components and all agree on the first n.
SharedByAll(filenames, n) ==
    \A k \in 1..Len(filenames) :
        /\ Len(Components(filenames[k])) >= n
        /\ SubSeq(Components(filenames[k]), 1, n)
             = SubSeq(Components(filenames[1]), 1, n)

LongestShared(filenames) ==
    CHOOSE n \in 0..Len(Components(filenames[1])) :
        /\ SharedByAll(filenames, n)
        /\ \A m \in (n + 1)..Len(Components(filenames[1])) :
              ~SharedByAll(filenames, m)

\* C13: of two or more members, remove_prefix takes off each member the
\* longest sequence of leading components shared by every member and
\* leaves out the members left with nothing; a single member is mapped to
\* its last component.
C13_LongestSharedPrefixRemoved ==
    members.stage = "stripped" =>
        LET filenames == members.filenames
            mapping == members.mapping
        IN
        /\ DOMAIN mapping \subseteq Range(filenames)
        /\ Len(filenames) >= 2 =>
              \A k \in 1..Len(filenames) :
                  LET parts == Components(filenames[k])
                      n == LongestShared(filenames)
                  IN  IF Len(parts) = n THEN filenames[k] \notin DOMAIN mapping
                      ELSE /\ filenames[k] \in DOMAIN mapping
                           /\ Components(mapping[filenames[k]])
                                = SubSeq(parts, n + 1, Len(parts))
                           /\ mapping[filenames[k]]
                                = SubSeq(RStripSlash(filenames[k]),
                                         Len(RStripSlash(filenames[k]))
                                           - Len(mapping[filenames[k]]) + 1,
                                         Len(RStripSlash(filenames[k])))
        /\ Len(filenames) = 1 =>
              /\ DOMAIN mapping = {filenames[1]}
              /\ mapping[filenames[1]]
                   = Components(filenames[1])[Len(Components(filenames[1]))]

C13_Witness ==
    /\ members.stage = "stripped"
    /\ \/ /\ members.filenames = <<"foo/bar/a", "foo/bar/b">>
          /\ members.mapping = ("foo/bar/a" :> "a") @@ ("foo/bar/b" :> "b")
       \/ /\ members.filenames = <<"only/thing.txt">>
          /\ members.mapping = ("only/thing.txt" :> "thing.txt")
\* The scripts Recipe.prepare and Recipe.build hand to the executors: one
\* when the recipe declares the function, none when it does not.
PrepareScripts ==
    IF "prepare" \in DOMAIN recipe.bash_functions
    THEN <<Script("", recipe.bash_functions["prepare"])>> ELSE <<>>

BuildScripts ==
    IF "build" \in DOMAIN recipe.bash_functions
    THEN <<Script(IMAGE_PREFIX \o recipe.image, recipe.bash_functions["build"])>>
    ELSE <<>>

StripScripts == <<Script(IMAGE_PREFIX \o DEFAULT_IMAGE, "strip")>>

\* C14: with no prepare() (resp. build()) declared, the Prepare (resp.
\* Build) stage runs no script and raises no error, and make goes on to
\* the next stage; Strip runs its script in every make that has gone
\* through Build, whether or not Prepare and Build ran a script.
C14_SkippedStagesAreNoOps ==
    /\ (pc = "fetch" /\ i > Len(recipe.source)) => ENABLED Prepare
    /\ pc = "prepared" =>
          ran = PrepareScripts /\ error = NoErr /\ ENABLED Build
    /\ pc = "built" =>
          ran = PrepareScripts \o BuildScripts /\ error = NoErr /\ ENABLED Strip
    /\ pc \in {"stripped", "packaged", "archived", "done"} =>
          IsPrefix(PrepareScripts \o BuildScripts \o StripScripts, ran)
    /\ (InMake /\ BuildStagePassed /\ pc # "built") =>
          \E k \in 1..Len(trace) : trace[k].stage = "Stripped"

C14_Witness ==
    /\ pc = "done"
    /\ "prepare" \notin DOMAIN recipe.bash_functions
    /\ "build" \notin DOMAIN recipe.bash_functions
    /\ ran[1] = StripScripts[1]
    /\ Len(out) >= 1
\* C15: whatever is wrong in the recipe or in a package declaration, the
\* failure that leaves the constructor is an InvalidRecipeError.
C15_OnlyInvalidRecipeError ==
    pc = "invalid" => error.kind = "InvalidRecipeError"
\* The script a package is loaded from (recipe.py:121-133): the recipe's
\* script for a single package, the body of its function for a split one.
SourceOf(pkg_name) ==
    IF Len(recipe.pkgnames) = 1 THEN RecipeText
    ELSE recipe.bash_functions[pkg_name]

DeclaredNames == RecipeFields \cup PackageFields \cup FunctionNames

\* d.get(n), as a sequence of at most one value.
Lookup(d, n) == IF n \in DOMAIN d THEN <<d[n]>> ELSE <<>>

\* The lookup of n in `own` first and in `base` second.
Layered(own, base, n) == IF n \in DOMAIN own THEN <<own[n]>> ELSE Lookup(base, n)

\* C16: a package sees, for every variable and function name, its own
\* declaration if its script has one, else the recipe's, else nothing; the
\* recipe's own maps are what the recipe's script declares, before and
\* after its packages are built.
C16_PackageOverRecipe ==
    Constructed =>
       /\ recipe.bash_variables = decl[RecipeText].vars
       /\ recipe.bash_functions = decl[RecipeText].funcs
       /\ \A p \in DOMAIN recipe.packages : \A n \in DeclaredNames :
             /\ Lookup(recipe.packages[p].bash_variables, n)
                  = Layered(decl[SourceOf(p)].vars, recipe.bash_variables, n)
             /\ Lookup(recipe.packages[p].bash_functions, n)
                  = Layered(decl[SourceOf(p)].funcs, recipe.bash_functions, n)

\* A split package that overrides one recipe-level variable with another
\* value, inherits another one and declares a function of its own.
C16_Witness ==
    /\ Constructed
    /\ Len(recipe.pkgnames) > 1
    /\ \E p \in DOMAIN recipe.packages :
          LET own == decl[SourceOf(p)] IN
          /\ \E n \in DOMAIN own.vars \cap DOMAIN recipe.bash_variables :
                own.vars[n] # recipe.bash_variables[n]
          /\ DOMAIN recipe.bash_variables \ DOMAIN own.vars # {}
          /\ \E f \in DOMAIN own.funcs \cap DOMAIN recipe.bash_functions :
                own.funcs[f] # recipe.bash_functions[f]
\* The maintainer script a hook goes to and the keyword of its guard.
ScriptOfHook(hook) ==
    CASE hook = "preinstall" -> "preinst"
      [] hook = "configure" -> "postinst"
      [] hook \in {"preupgrade", "preremove"} -> "prerm"
      [] hook \in {"postupgrade", "postremove"} -> "postrm"

KeywordOfHook(hook) ==
    CASE hook = "preinstall" -> "install"
      [] hook = "configure" -> "configure"
      [] hook \in {"preupgrade", "postupgrade"} -> "upgrade"
      [] hook \in {"preremove", "postremove"} -> "remove"

\* The members of the control sub-archive of an archive file after the
\* control file itself.
ScriptMembers(file) == Tail(file.entries[1].data.tar)

\* The hooks a package declares, itself or through its recipe.
DeclaredHooks(package) ==
    InstallHooks \cap DOMAIN recipe.packages[package].bash_functions

\* C18: the control sub-archive of every archive written holds one
\* maintainer script per script name that a declared hook goes to and no
\* other; each script holds one guarded block per declared hook that goes to
\* it, the block being the hook's body under the hook's keyword.
C18_ScriptsFromDeclaredHooks ==
    \A k \in 1..Len(out) :
       LET hooks == DeclaredHooks(out[k].package)
           functions == recipe.packages[out[k].package].bash_functions
           scripts == ScriptMembers(out[k])
       IN  /\ {scripts[m].name : m \in 1..Len(scripts)}
                = {"./" \o ScriptOfHook(h) : h \in hooks}
           /\ \A m, n \in 1..Len(scripts) :
                 scripts[m].name = scripts[n].name => m = n
           /\ \A m \in 1..Len(scripts) :
                 LET blocks == scripts[m].data.script
                     mine == {h \in hooks :
                                "./" \o ScriptOfHook(h) = scripts[m].name}
                 IN  /\ Range(blocks)
                          = {Guard(KeywordOfHook(h), functions[h]) : h \in mine}
                     /\ Len(blocks) = Cardinality(mine)

\* Two archives written: one whose only script is a prerm with the upgrade
\* and the remove block, one whose only script is a prerm with one block.
C18_Witness ==
    \E k, l \in 1..Len(out) :
       /\ Len(ScriptMembers(out[k])) = 1
       /\ ScriptMembers(out[k])[1].name = "./prerm"
       /\ Len(ScriptMembers(out[k])[1].data.script) = 2
       /\ Len(ScriptMembers(out[l])) = 1
       /\ ScriptMembers(out[l])[1].name = "./prerm"
       /\ Len(ScriptMembers(out[l])[1].data.script) = 1
\* C19: whenever a file is handed to auto_extract, it is the file of the
\* turn of the fetch loop being taken, its checksum step has passed (the
\* checksum is SKIP or equals the digest of the file) and its basename is
\* not listed in noextract.
C19_ExtractAfterVerification ==
    [][extracted' # extracted =>
          /\ Len(fetched') = Len(fetched) + 1
          /\ LET f == fetched'[Len(fetched')] IN
             /\ f.source = OrEmpty(recipe.source[i])
             /\ extracted' = Append(extracted, "src/" \o Basename(f.source))
             /\ f.checksum = "SKIP" \/ f.digest = f.checksum
             /\ Basename(f.source) \notin Range(recipe.noextract)]_vars

\* A file has been extracted after its digest was compared, and a verified
\* file named in noextract has been left as it is.
C19_Witness ==
    /\ \E k \in 1..Len(extracted) : \E m \in 1..Len(fetched) :
          /\ extracted[k] = "src/" \o Basename(fetched[m].source)
          /\ fetched[m].checksum # "SKIP"
    /\ \E m \in 1..Len(fetched) :
          /\ fetched[m].outcome = "ok"
          /\ Basename(fetched[m].source) \in Range(recipe.noextract)
\* The last turn of the fetch loop ended on an unexpected status code or on
\* a checksum mismatch.
FetchFailed == fetched # <<>> /\ fetched[Len(fetched)].outcome # "ok"

\* C20: once a source could not be fetched or verified, make has failed
\* with a BuildError: no stage after the fetch has run, no script was run,
\* no archive was written, and from then on nothing more is fetched,
\* extracted, run or written.
C20_FetchFailureIsFatal ==
    /\ [](FetchFailed =>
            /\ pc = "failed"
            /\ error.kind = "BuildError"
            /\ trace = <<Stage("Fetched", "")>>
            /\ ran = <<>>
            /\ out = <<>>)
    /\ [][FetchFailed => UNCHANGED <<fetched, extracted, trace, ran, out, pc>>]_vars

\* The second source of a recipe failed its checksum after the first one,
\* a remote file, was fetched and verified.
C20_Witness ==
    /\ FetchFailed
    /\ Len(fetched) = 2
    /\ fetched[1].remote /\ fetched[1].outcome = "ok"
    /\ fetched[2].outcome = "checksum"
\* C21: in a constructed recipe every package is stored under its own
\* name, packages[k].name = k, so that the names a scan of the packages
\* reports are keys of the mapping.
C21_KeyedByOwnName ==
    Constructed =>
       \A k \in DOMAIN recipe.packages : recipe.packages[k].name = k
\* C22: parsing the string of a Version built from a valid triple gives
\* back its upstream, its revision and its epoch.
C22_ParseOfStrIsIdentity ==
    reparse.stage = "parsed" =>
       /\ IsOk(reparse.result)
       /\ reparse.result.val.upstream = reparse.version.upstream
       /\ reparse.result.val.revision = reparse.version.revision
       /\ reparse.result.val.epoch = reparse.version.epoch
\* make has raised the failure for a requested name that is no package of
\* the recipe: it failed, and not in the fetch.
UnknownRaised == pc = "failed" /\ InMake /\ ~FetchFailed

\* C23: when make fails on an unknown requested name, that name is the one
\* whose turn it is; fetch, prepare, build and strip were each entered once;
\* the names requested before it, and only they, were packaged and
\* archived, in the order of the request; nothing is packaged or archived
\* afterwards.
C23_UnknownNameCheckedInTurn ==
    /\ [](UnknownRaised =>
            /\ j \in 1..Len(Selected)
            /\ Selected[j] \notin DOMAIN recipe.packages
            /\ \A k \in 1..(j - 1) : Selected[k] \in DOMAIN recipe.packages
            /\ trace = ExpectedTrace(SubSeq(Selected, 1, j - 1))
            /\ Len(out) = j - 1
            /\ \A k \in 1..(j - 1) : out[k].package = Selected[k])
    /\ [][UnknownRaised => UNCHANGED <<trace, ran, out, fetched, extracted>>]_vars

\* The unknown name stands between two packages of the recipe: the first
\* has been archived when the failure is raised, the last is never reached.
C23_Witness ==
    /\ UnknownRaised
    /\ j = 2 /\ Len(Selected) = 3
    /\ Selected[3] \in DOMAIN recipe.packages
    /\ Len(out) = 1 /\ out[1].package = Selected[1]
====
